---- MODULE Spec2Model ----
(***************************************************************************)
(* Interactive configuration assembly of fractal's config package:         *)
(* SetupConfigInteractively, readIntegrationFields, readRules,             *)
(* readErrorHandlingConfig, saveConfig and LoadConfig, together with the   *)
(* process-wide viper settings store they share and the config.yaml file.  *)
(*                                                                         *)
(* Go strings are sequences of one-character strings, so that key          *)
(* lower-casing and rule concatenation are computed, not assumed.          *)
(***************************************************************************)
EXTENDS Integers, Sequences, FiniteSets, TLC

VARIABLES
    pc,               \* position of the caller inside SetupConfigInteractively
    inputMethods,     \* names offered by the input selection prompt
    outputMethods,    \* names offered by the output selection prompt
    inputMethod, inputconfig, outputMethod, outputconfig,
    validations, transformations,      \* locals of SetupConfigInteractively
    fields, i, config,                 \* locals of readIntegrationFields
    rules,                             \* local of readRules
    ret,              \* what SetupConfigInteractively returned
    prompts,          \* the prompts issued by the current session, in order
    override,         \* viper: values stored by viper.Set
    vconfig,          \* viper: the configuration read by viper.ReadInConfig
    configFile,       \* viper: the path given to viper.SetConfigFile
    fs,               \* the files on disk, by path
    sources, destinations,             \* the registry's two maps
    loaded,           \* what the latest LoadConfig returned
    hist,             \* history: the saveConfig calls, for the store claims
    nSessions         \* the calls of SetupConfigInteractively so far

vars == << pc, inputMethods, outputMethods, inputMethod, inputconfig, outputMethod,
           outputconfig, validations, transformations, fields, i, config, rules,
           ret, prompts, override, vconfig, configFile, fs, sources, destinations,
           loaded, hist, nSessions >>

-----------------------------------------------------------------------------
(* Bounds of the model.                                                    *)

MaxSessions == 2          \* calls of SetupConfigInteractively per modelled history
MaxLines == 1             \* non-empty rule lines per category (store specification)
MaxLinesCall == 2         \* non-empty rule lines per category (single call)

-----------------------------------------------------------------------------
(* Text.                                                                   *)

NL == "\n"

UpperToLower ==
    ("A" :> "a") @@ ("B" :> "b") @@ ("C" :> "c") @@ ("D" :> "d") @@ ("E" :> "e") @@
    ("F" :> "f") @@ ("G" :> "g") @@ ("H" :> "h") @@ ("I" :> "i") @@ ("J" :> "j") @@
    ("K" :> "k") @@ ("L" :> "l") @@ ("M" :> "m") @@ ("N" :> "n") @@ ("O" :> "o") @@
    ("P" :> "p") @@ ("Q" :> "q") @@ ("R" :> "r") @@ ("S" :> "s") @@ ("T" :> "t") @@
    ("U" :> "u") @@ ("V" :> "v") @@ ("W" :> "w") @@ ("X" :> "x") @@ ("Y" :> "y") @@
    ("Z" :> "z")

\* strings.ToLower, as viper applies it to every key
RECURSIVE ToLower(_)
ToLower(s) ==
    IF s = << >> THEN << >>
    ELSE << IF Head(s) \in DOMAIN UpperToLower THEN UpperToLower[Head(s)] ELSE Head(s) >>
         \o ToLower(Tail(s))

\* the keys of the document, as the source spells them
inputMethodKey     == << "i","n","p","u","t","M","e","t","h","o","d" >>
outputMethodKey    == << "o","u","t","p","u","t","M","e","t","h","o","d" >>
inputconfigKey     == << "i","n","p","u","t","c","o","n","f","i","g" >>
outputconfigKey    == << "o","u","t","p","u","t","c","o","n","f","i","g" >>
validationsKey     == << "v","a","l","i","d","a","t","i","o","n","s" >>
transformationsKey == << "t","r","a","n","s","f","o","r","m","a","t","i","o","n","s" >>
errorhandlingKey   == << "e","r","r","o","r","h","a","n","d","l","i","n","g" >>
strategyKey        == << "s","t","r","a","t","e","g","y" >>

\* the path saveConfig writes
ConfigYaml  == << "c","o","n","f","i","g",".","y","a","m","l" >>

-----------------------------------------------------------------------------
(* Values of map[string]interface{}: a string, or a map from keys to       *)
(* strings (the documents of this package nest one level).                 *)

Str(t) == [t |-> "string", v |-> t]
Map(m) == [t |-> "map", v |-> m]
EmptyMap == << >>

\* the result of a lookup that finds nothing (Go's nil interface value)
Nil == [t |-> "nil", v |-> << >>]

-----------------------------------------------------------------------------
(* The settings store (github.com/spf13/viper), as this package uses it:   *)
(* keys are case-insensitive and stored lower-cased, values given to Set   *)
(* take precedence over values read from the configuration file, and the   *)
(* file written is the merge of both.                                      *)

\* viper's insensitiviseMap: the keys of a map, and of the maps nested in it, lower-cased
LowerKeys(m) ==
    [k \in {ToLower(j) : j \in DOMAIN m} |-> m[CHOOSE j \in DOMAIN m : ToLower(j) = k]]

toCaseInsensitiveValue(value) ==
    IF value.t = "map" THEN Map(LowerKeys(value.v)) ELSE value

insensitiviseMap(m) ==
    LET l == LowerKeys(m) IN [k \in DOMAIN l |-> toCaseInsensitiveValue(l[k])]

\* viper.Set(key, value)
viperSet(ov, key, value) ==
    LET k == ToLower(key)
    IN  [j \in DOMAIN ov \cup {k} |-> IF j = k THEN toCaseInsensitiveValue(value) ELSE ov[j]]

\* viper's searchMap along a path of one or two lower-cased keys
searchMap(m, path) ==
    IF path[1] \notin DOMAIN m THEN Nil
    ELSE IF Len(path) = 1 THEN m[path[1]]
    ELSE IF m[path[1]].t = "map" /\ path[2] \in DOMAIN m[path[1]].v
         THEN Str(m[path[1]].v[path[2]])
         ELSE Nil

\* viper's isPathShadowedInDeepMap: a prefix of the path holds a value that is no map
isPathShadowed(m, path) ==
    Len(path) = 2 /\ path[1] \in DOMAIN m /\ m[path[1]].t # "map"

\* viper's find: the override layer first, then the configuration file's
viperFind(ov, cfg, path) ==
    IF searchMap(ov, path).t # "nil" THEN searchMap(ov, path)
    ELSE IF isPathShadowed(ov, path) THEN Nil
    ELSE searchMap(cfg, path)

\* viper.Get, viper.GetString and viper.GetStringMap (spf13/cast: the zero value on a mismatch)
viperGet(ov, cfg, key) == viperFind(ov, cfg, << ToLower(key) >>)

GetString(ov, cfg, key) ==
    LET val == viperGet(ov, cfg, key) IN IF val.t = "string" THEN val.v ELSE << >>

GetStringMap(ov, cfg, key) ==
    LET val == viperGet(ov, cfg, key) IN IF val.t = "map" THEN val.v ELSE EmptyMap

\* viper's flattenAndMergeMap: the paths of the leaves of one layer
flatten(m) ==
    {<< k >> : k \in {j \in DOMAIN m : m[j].t # "map"}}
    \cup UNION {{<< k, j >> : j \in DOMAIN m[k].v} : k \in {j \in DOMAIN m : m[j].t = "map"}}

\* viper.AllKeys: the leaves of both layers, a leaf of the override layer
\* shadowing the paths below it
AllKeys(ov, cfg) ==
    flatten(ov) \cup {p \in flatten(cfg) : ~ (Len(p) = 2 /\ << p[1] >> \in flatten(ov))}

\* viper.AllSettings: the nested map rebuilt from every key's value
AllSettings(ov, cfg) ==
    LET keys == AllKeys(ov, cfg)
        deep == {p[1] : p \in {q \in keys : Len(q) = 2}}
    IN  [k \in {p[1] : p \in keys} |->
            IF k \in deep
            THEN Map([j \in {p[2] : p \in {q \in keys : Len(q) = 2 /\ q[1] = k}} |->
                        viperFind(ov, cfg, << k, j >>).v])
            ELSE viperFind(ov, cfg, << k >>)]

-----------------------------------------------------------------------------
(* Files.                                                                  *)

NoFile   == [kind |-> "none", tree |-> << >>]
Garbled  == [kind |-> "garbled", tree |-> << >>]
Yaml(tree) == [kind |-> "yaml", tree |-> tree]

WriteFileAppend(old, tree) == IF old.kind = "none" THEN Yaml(tree) ELSE Garbled

\* what a successful write leaves at the path: viper.WriteConfigAs opens the file
\* with O_CREATE|O_TRUNC|O_WRONLY, so the old content is dropped
WriteFile(old, tree) == Yaml(tree)

\* viper.ReadInConfig: the file at configFile, parsed and its keys lower-cased;
\* on an error the configuration read before stays
ReadInConfig(files, path, cfg) ==
    IF path \notin DOMAIN files \/ files[path].kind # "yaml"
    THEN [err |-> TRUE, config |-> cfg]
    ELSE [err |-> FALSE, config |-> insensitiviseMap(files[path].tree)]

-----------------------------------------------------------------------------
(* The registry (package registry) and the integrations registered in it.  *)

CSV == << "C","S","V" >>
Raw == << "R","a","w" >>
SQL == << "S","Q","L" >>
PathField  == << "P","a","t","h" >>
DSNField   == << "D","S","N" >>
TableField == << "T","a","b","l","e" >>

Field(name, type) == [name |-> name, type |-> type]

\* a pointer to a struct with one field, a struct with two, and a value that is no struct
CSVSource      == [kind |-> "ptr",
                   elem |-> [kind |-> "struct", fields |-> << Field(PathField, "string") >>]]
RawSource      == [kind |-> "func", fields |-> << >>]
SQLDestination == [kind |-> "struct",
                   fields |-> << Field(DSNField, "string"), Field(TableField, "string") >>]

RegisteredSources      == (CSV :> CSVSource) @@ (Raw :> RawSource)
RegisteredDestinations == (SQL :> SQLDestination)

\* registry.GetSources / registry.GetDestinations, ranged over for their names
getRegisteredDataSources(srcs)      == DOMAIN srcs
getRegisteredDataDestinations(dsts) == DOMAIN dsts

-----------------------------------------------------------------------------
(* What the human may answer.                                              *)

FieldValues      == {<< >>, << "V" >>}
FieldValuesStore == {<< "V" >>}
Lines            == {<< "a" >>, << "b" >>}
LinesStore       == {<< "a" >>}
StopOnError      == << "S","T","O","P" >>
Strategies       == {StopOnError, << >>}
StrategiesStore  == {StopOnError}

\* a config.yaml that was not written by this process: a key the document does
\* not have, and an entry of an integration configured earlier
legacyKey == << "L","e","g","a","c","y" >>
oldField  == << "O","l","d" >>
PriorTree == (legacyKey :> Str(<< "V" >>)) @@ (inputconfigKey :> Map(oldField :> << "V" >>))

-----------------------------------------------------------------------------
(* Return values and the prompt log.                                       *)

FailedWithDocument(msg, cause) ==
    [set |-> TRUE, nil |-> FALSE, doc |-> << >>, err |-> msg, cause |-> cause]

NoReturn            == [set |-> FALSE, nil |-> TRUE, doc |-> << >>, err |-> "", cause |-> ""]
Failed(msg, cause)  == [set |-> TRUE, nil |-> TRUE, doc |-> << >>, err |-> msg, cause |-> cause]
Returned(d)         == [set |-> TRUE, nil |-> FALSE, doc |-> d, err |-> "", cause |-> ""]

\* one prompt: which prompt, the field it asks for (field prompts), whether the
\* human answered, and the answer
Prompt(kind, name, ok, value) == [kind |-> kind, name |-> name, ok |-> ok, value |-> value]

NoLoad == [set |-> FALSE, nil |-> TRUE, doc |-> << >>, err |-> FALSE]

\* the history the store claims speak of: the document of this process's latest
\* saveConfig and whether its write succeeded, the document whose write left the
\* current config.yaml, whether LoadConfig ran since the latest saveConfig, and,
\* when saveConfig was called twice in a row with one document, what LoadConfig
\* returned between the two calls
NoHist == [saved |-> FALSE, doc |-> << >>, wrote |-> FALSE,
           fileSet |-> FALSE, fileDoc |-> << >>,
           fresh |-> FALSE, twice |-> FALSE, firstLoad |-> NoLoad]

-----------------------------------------------------------------------------
Init ==
    /\ pc = "idle"
    /\ inputMethods = {} /\ outputMethods = {}
    /\ inputMethod = << >> /\ inputconfig = EmptyMap
    /\ outputMethod = << >> /\ outputconfig = EmptyMap
    /\ validations = << >> /\ transformations = << >>
    /\ fields = << >> /\ i = 0 /\ config = EmptyMap
    /\ rules = << >>
    /\ ret = NoReturn
    /\ prompts = << >>
    /\ override = EmptyMap /\ vconfig = EmptyMap /\ configFile = << >>
    /\ \E f \in {NoFile, Yaml(PriorTree)} : fs = (ConfigYaml :> f)
    /\ sources = RegisteredSources /\ destinations = RegisteredDestinations
    /\ loaded = NoLoad
    /\ hist = NoHist
    /\ nSessions = 0

storeVars    == << override, vconfig, configFile, fs >>
registryVars == << sources, destinations >>
countVars    == << nSessions >>

-----------------------------------------------------------------------------
(* SetupConfigInteractively, one action per prompt: the code between two   *)
(* prompts runs with the answer of the first.                              *)

FirstPromptOutput == "outputPrompt"

\* the prompt SetupConfigInteractively shows first
FirstPrompt == "inputPrompt"

\* SetupConfigInteractively is called: the names are listed and the input
\* selection prompt is shown
SetupConfigInteractively(from) ==
    /\ pc \in from
    /\ nSessions < MaxSessions
    /\ nSessions' = nSessions + 1
    /\ inputMethods' = getRegisteredDataSources(sources)
    /\ outputMethods' = getRegisteredDataDestinations(destinations)
    /\ pc' = FirstPrompt
    /\ inputMethod' = << >> /\ inputconfig' = EmptyMap
    /\ outputMethod' = << >> /\ outputconfig' = EmptyMap
    /\ validations' = << >> /\ transformations' = << >>
    /\ fields' = << >> /\ i' = 0 /\ config' = EmptyMap /\ rules' = << >>
    /\ ret' = NoReturn
    /\ prompts' = << >>
    /\ UNCHANGED << storeVars, registryVars, loaded, hist >>

readIntegrationFieldsEntrySkip(method, isSource, srcs, dsts) ==
    LET reg == IF isSource THEN srcs ELSE dsts
        val == IF reg[method].kind = "ptr" THEN reg[method].elem ELSE reg[method]
    IN  IF method \notin DOMAIN reg
        THEN [err |-> "", fields |-> << >>]
        ELSE IF val.kind # "struct"
        THEN [err |-> "integration is not a struct", fields |-> << >>]
        ELSE [err |-> "", fields |-> val.fields]

\* readIntegrationFields up to its loop: the registry lookup and the reflection
\* on what it returns
readIntegrationFieldsEntry(method, isSource, srcs, dsts) ==
    LET reg   == IF isSource THEN srcs ELSE dsts
        found == method \in DOMAIN reg
        val   == IF reg[method].kind = "ptr" THEN reg[method].elem ELSE reg[method]
    IN  IF ~ found
        THEN [err |-> "integration not found in registry", fields |-> << >>]
        ELSE IF val.kind # "struct"
        THEN [err |-> "integration is not a struct", fields |-> << >>]
        ELSE [err |-> "", fields |-> val.fields]

\* the input selection prompt is answered; readIntegrationFields(inputMethod, true)
\* runs up to its first field prompt
inputPromptRun ==
    /\ pc = "inputPrompt"
    /\ \/ /\ prompts' = Append(prompts, Prompt("selectInput", << >>, FALSE, << >>))
          /\ ret' = Failed("failed to get input method", "prompt")
          /\ pc' = "done"
          /\ UNCHANGED << inputMethod, inputconfig, fields, i, config >>
       \/ \E name \in inputMethods :
            LET e == readIntegrationFieldsEntry(name, TRUE, sources, destinations)
            IN  /\ prompts' = Append(prompts, Prompt("selectInput", << >>, TRUE, name))
                /\ inputMethod' = name
                /\ IF e.err # ""
                   THEN /\ ret' = Failed("failed to get fields for input method", e.err)
                        /\ pc' = "done"
                        /\ UNCHANGED << inputconfig, fields, i, config >>
                   ELSE /\ fields' = e.fields /\ i' = 0 /\ config' = EmptyMap
                        /\ pc' = IF e.fields = << >> THEN "outputPrompt" ELSE "inputFields"
                        /\ inputconfig' = EmptyMap
                        /\ UNCHANGED ret
    /\ UNCHANGED << inputMethods, outputMethods, outputMethod, outputconfig, validations,
                    transformations, rules, storeVars, registryVars, loaded, hist,
                    countVars >>

configAssignSkipEmpty(cfg, fieldName, value) ==
    IF value = << >> THEN cfg
    ELSE [k \in DOMAIN cfg \cup {fieldName} |-> IF k = fieldName THEN value ELSE cfg[k]]

\* config[fieldName] = value
configAssign(cfg, fieldName, value) ==
    [k \in DOMAIN cfg \cup {fieldName} |-> IF k = fieldName THEN value ELSE cfg[k]]

readIntegrationFieldsFailedPartial(cfg) == cfg

\* what readIntegrationFields returns when a field prompt fails: return nil, err
\* (the nil map is the empty one here; the fields entered so far stay in cfg)
readIntegrationFieldsFailed(cfg) == EmptyMap

\* one pass of the loop of readIntegrationFields: the prompt for field i is
\* answered; after the last field the mapping is returned to the caller, which
\* goes on to its next prompt
readIntegrationFieldsPrompt(values) ==
    /\ pc \in {"inputFields", "outputFields"}
    /\ LET isSource  == pc = "inputFields"
           fieldName == fields[i + 1].name
           kind      == IF isSource THEN "inputField" ELSE "outputField"
       IN  \/ /\ prompts' = Append(prompts, Prompt(kind, fieldName, FALSE, << >>))
              /\ ret' = Failed(IF isSource THEN "failed to get fields for input method"
                                           ELSE "failed to get fields for output method",
                               "prompt")
              /\ pc' = "done"
              /\ inputconfig' = IF isSource THEN readIntegrationFieldsFailed(config)
                                            ELSE inputconfig
              /\ outputconfig' = IF isSource THEN outputconfig
                                             ELSE readIntegrationFieldsFailed(config)
              /\ UNCHANGED << i, config, rules >>
           \/ \E value \in values :
                LET next == configAssign(config, fieldName, value)
                    last == i + 1 = Len(fields)
                IN  /\ prompts' = Append(prompts, Prompt(kind, fieldName, TRUE, value))
                    /\ config' = next
                    /\ i' = i + 1
                    /\ inputconfig' = IF last /\ isSource THEN next ELSE inputconfig
                    /\ outputconfig' = IF last /\ ~ isSource THEN next ELSE outputconfig
                    /\ pc' = IF ~ last THEN pc
                             ELSE IF isSource THEN "outputPrompt" ELSE "validations"
                    /\ rules' = IF last /\ ~ isSource THEN << >> ELSE rules
                    /\ UNCHANGED ret
    /\ UNCHANGED << inputMethods, outputMethods, inputMethod, outputMethod, validations,
                    transformations, fields, storeVars, registryVars, loaded, hist,
                    countVars >>

\* the output selection prompt is answered; readIntegrationFields(outputMethod, false)
\* runs up to its first field prompt
outputPromptRun ==
    /\ pc = "outputPrompt"
    /\ \/ /\ prompts' = Append(prompts, Prompt("selectOutput", << >>, FALSE, << >>))
          /\ ret' = Failed("failed to get output method", "prompt")
          /\ pc' = "done"
          /\ UNCHANGED << outputMethod, outputconfig, fields, i, config, rules >>
       \/ \E name \in outputMethods :
            LET e == readIntegrationFieldsEntry(name, FALSE, sources, destinations)
            IN  /\ prompts' = Append(prompts, Prompt("selectOutput", << >>, TRUE, name))
                /\ outputMethod' = name
                /\ IF e.err # ""
                   THEN /\ ret' = Failed("failed to get fields for output method", e.err)
                        /\ pc' = "done"
                        /\ UNCHANGED << outputconfig, fields, i, config, rules >>
                   ELSE /\ fields' = e.fields /\ i' = 0 /\ config' = EmptyMap
                        /\ pc' = IF e.fields = << >> THEN "validations" ELSE "outputFields"
                        /\ outputconfig' = EmptyMap
                        /\ rules' = << >>
                        /\ UNCHANGED ret
    /\ UNCHANGED << inputMethods, outputMethods, inputMethod, inputconfig, validations,
                    transformations, storeVars, registryVars, loaded, hist, countVars >>

\* the number of lines accumulated in a rule text
NumLines(text) == Cardinality({n \in DOMAIN text : text[n] = NL})

appendRuleNoSeparator(text, line) == text \o line

\* rules += line + "\n"
appendRule(text, line) == text \o line \o << NL >>

afterReadRulesSkip(category) == "strategy"

afterReadRulesAgain(category) == category

\* where SetupConfigInteractively goes on when readRules has returned: from
\* readRules("validations") to readRules("transformations"), from there to
\* readErrorHandlingConfig
afterReadRules(category) ==
    IF category = "validations" THEN "transformations" ELSE "strategy"

readRulesFailedPartial(text) == text

\* what readRules returns when a line read fails: return "", err
readRulesFailed(text) == << >>

\* one pass of the loop of readRules: a line is read; the empty line ends the
\* collection and the caller goes on to its next prompt
readRulesPrompt(lines, maxLines) ==
    /\ pc \in {"validations", "transformations"}
    /\ LET isValidations == pc = "validations"
       IN  \/ /\ prompts' = Append(prompts, Prompt(pc, << >>, FALSE, << >>))
              /\ ret' = Failed(IF isValidations THEN "failed to read validation rules"
                                                ELSE "failed to read transformation rules",
                               "prompt")
              /\ pc' = "done"
              /\ validations' = IF isValidations THEN readRulesFailed(rules)
                                                 ELSE validations
              /\ transformations' = IF isValidations THEN transformations
                                                     ELSE readRulesFailed(rules)
              /\ UNCHANGED rules
           \/ /\ prompts' = Append(prompts, Prompt(pc, << >>, TRUE, << >>))
              /\ validations' = IF isValidations THEN rules ELSE validations
              /\ transformations' = IF isValidations THEN transformations ELSE rules
              /\ rules' = IF isValidations THEN << >> ELSE rules
              /\ pc' = afterReadRules(pc)
              /\ UNCHANGED ret
           \/ \E line \in lines :
                /\ NumLines(rules) < maxLines
                /\ prompts' = Append(prompts, Prompt(pc, << >>, TRUE, line))
                /\ rules' = appendRule(rules, line)
                /\ UNCHANGED << pc, validations, transformations, ret >>
    /\ UNCHANGED << inputMethods, outputMethods, inputMethod, inputconfig, outputMethod,
                    outputconfig, fields, i, config, storeVars, registryVars, loaded,
                    hist, countVars >>

\* readErrorHandlingConfig: the strategy label wrapped into a map
readErrorHandlingConfig(strategy) == (strategyKey :> strategy)

CombineConfigSwapped(inMethod, outMethod, inConfig, outConfig, valids, transfs, errorhandling) ==
    (inputMethodKey :> Str(inMethod)) @@ (outputMethodKey :> Str(outMethod)) @@
    (inputconfigKey :> Map(inConfig)) @@ (outputconfigKey :> Map(outConfig)) @@
    (validationsKey :> Str(transfs)) @@ (transformationsKey :> Str(valids)) @@
    (errorhandlingKey :> Map(errorhandling))

\* "Combine all configurations": the document SetupConfigInteractively builds
CombineConfig(inMethod, outMethod, inConfig, outConfig, valids, transfs, errorhandling) ==
    (inputMethodKey :> Str(inMethod)) @@ (outputMethodKey :> Str(outMethod)) @@
    (inputconfigKey :> Map(inConfig)) @@ (outputconfigKey :> Map(outConfig)) @@
    (validationsKey :> Str(valids)) @@ (transformationsKey :> Str(transfs)) @@
    (errorhandlingKey :> Map(errorhandling))

\* saveConfig's loop: viper.Set for every key of the document
RECURSIVE SetEach(_, _, _)
SetEach(ov, doc, keys) ==
    IF keys = {} THEN ov
    ELSE LET key == CHOOSE k \in keys : TRUE
         IN  SetEach(viperSet(ov, key, doc[key]), doc, keys \ {key})

saveConfigSet(ov, doc) == SetEach(ov, doc, DOMAIN doc)

\* how viper.WriteConfigAs may end: written, not opened, or failed while writing
WriteOutcomes == {"ok", "open", "write"}

\* saveConfig's write: the merged settings go to config.yaml; a failure is
\* printed and leaves the file as it was, or broken
saveConfigWrite(files, ov, cfg, outcome) ==
    [files EXCEPT ![ConfigYaml] =
        IF outcome = "ok" THEN WriteFile(@, AllSettings(ov, cfg))
        ELSE IF outcome = "open" THEN @
        ELSE Garbled]

SetupReturnPropagates(doc, outcome) ==
    IF outcome = "ok" THEN Returned(doc)
    ELSE Failed("failed to save configuration", "write")

\* what SetupConfigInteractively returns after saveConfig
SetupReturn(doc, outcome) == Returned(doc)

\* the history of saveConfig calls
HistAfterSave(doc, outcome) ==
    LET again == hist.saved /\ hist.doc = doc /\ hist.wrote /\ outcome = "ok"
    IN  [saved     |-> TRUE,
         doc       |-> doc,
         wrote     |-> outcome = "ok",
         fileSet   |-> IF outcome = "ok" THEN TRUE
                       ELSE IF outcome = "open" THEN hist.fileSet ELSE FALSE,
         fileDoc   |-> IF outcome = "ok" THEN doc
                       ELSE IF outcome = "open" THEN hist.fileDoc ELSE << >>,
         fresh     |-> FALSE,
         twice     |-> again,
         firstLoad |-> IF again /\ hist.fresh THEN loaded ELSE NoLoad]

settingsOnAbortKept(ov, method) == viperSet(ov, inputMethodKey, Str(method))

\* the keys set in the process when the call returns its error before
\* saveConfig is reached: those set before the call, the answers given so far
\* being dropped
settingsOnAbort(ov, method) == ov

\* the strategy prompt is answered; the document is combined, saved and returned
readErrorHandlingConfigPrompt(strategies) ==
    /\ pc = "strategy"
    /\ \/ /\ prompts' = Append(prompts, Prompt("strategy", << >>, FALSE, << >>))
          /\ ret' = Failed("failed to read error handling configuration", "prompt")
          /\ pc' = "done"
          /\ override' = settingsOnAbort(override, inputMethod)
          /\ UNCHANGED << vconfig, configFile, fs, hist >>
       \/ \E strategy \in strategies, outcome \in WriteOutcomes :
            LET doc == CombineConfig(inputMethod, outputMethod, inputconfig, outputconfig,
                                     validations, transformations,
                                     readErrorHandlingConfig(strategy))
            IN  /\ prompts' = Append(prompts, Prompt("strategy", << >>, TRUE, strategy))
                /\ override' = saveConfigSet(override, doc)
                /\ fs' = saveConfigWrite(fs, override', vconfig, outcome)
                /\ ret' = SetupReturn(doc, outcome)
                /\ hist' = HistAfterSave(doc, outcome)
                /\ pc' = "done"
                /\ UNCHANGED << vconfig, configFile >>
    /\ UNCHANGED << inputMethods, outputMethods, inputMethod, inputconfig, outputMethod,
                    outputconfig, validations, transformations, fields, i, config, rules,
                    registryVars, loaded, countVars >>

-----------------------------------------------------------------------------
(* LoadConfig.                                                             *)

\* the projection of the two method names alone
LoadedDocMethodsOnly(ov, cfg) ==
    (inputMethodKey :> Str(GetString(ov, cfg, inputMethodKey))) @@
    (outputMethodKey :> Str(GetString(ov, cfg, outputMethodKey)))

\* the projection with the two rule texts read from each other's key
LoadedDocRulesSwapped(ov, cfg) ==
    (inputMethodKey :> Str(GetString(ov, cfg, inputMethodKey))) @@
    (outputMethodKey :> Str(GetString(ov, cfg, outputMethodKey))) @@
    (inputconfigKey :> Map(GetStringMap(ov, cfg, inputconfigKey))) @@
    (outputconfigKey :> Map(GetStringMap(ov, cfg, outputconfigKey))) @@
    (errorhandlingKey :> Map(GetStringMap(ov, cfg, errorhandlingKey))) @@
    (validationsKey :> Str(GetString(ov, cfg, transformationsKey))) @@
    (transformationsKey :> Str(GetString(ov, cfg, validationsKey)))

\* the document LoadConfig projects from the store
LoadedDoc(ov, cfg) ==
    (inputMethodKey :> Str(GetString(ov, cfg, inputMethodKey))) @@
    (outputMethodKey :> Str(GetString(ov, cfg, outputMethodKey))) @@
    (inputconfigKey :> Map(GetStringMap(ov, cfg, inputconfigKey))) @@
    (outputconfigKey :> Map(GetStringMap(ov, cfg, outputconfigKey))) @@
    (errorhandlingKey :> Map(GetStringMap(ov, cfg, errorhandlingKey))) @@
    (validationsKey :> Str(GetString(ov, cfg, validationsKey))) @@
    (transformationsKey :> Str(GetString(ov, cfg, transformationsKey)))

LoadConfig(path) ==
    /\ pc \in {"idle", "done"}
    /\ LET r == ReadInConfig(fs, path, vconfig)
       IN  /\ configFile' = path
           /\ vconfig' = r.config
           /\ loaded' = [set |-> TRUE, nil |-> r.err,
                         doc |-> IF r.err THEN << >> ELSE LoadedDoc(override, r.config),
                         err |-> r.err]
    /\ hist' = [hist EXCEPT !.fresh = TRUE]
    /\ UNCHANGED << pc, inputMethods, outputMethods, inputMethod, inputconfig, outputMethod,
                    outputconfig, validations, transformations, fields, i, config, rules,
                    ret, prompts, override, fs, registryVars, countVars >>

-----------------------------------------------------------------------------
(* The environment: the process ends and a new one starts with an empty    *)
(* store and the files left on disk; the registry's content changes.       *)

Restart ==
    /\ pc \in {"idle", "done"}
    /\ pc' = "idle"
    /\ inputMethods' = {} /\ outputMethods' = {}
    /\ inputMethod' = << >> /\ inputconfig' = EmptyMap
    /\ outputMethod' = << >> /\ outputconfig' = EmptyMap
    /\ validations' = << >> /\ transformations' = << >>
    /\ fields' = << >> /\ i' = 0 /\ config' = EmptyMap /\ rules' = << >>
    /\ ret' = NoReturn
    /\ prompts' = << >>
    /\ override' = EmptyMap /\ vconfig' = EmptyMap /\ configFile' = << >>
    /\ sources' = RegisteredSources /\ destinations' = RegisteredDestinations
    /\ loaded' = NoLoad
    /\ hist' = [hist EXCEPT !.saved = FALSE, !.doc = << >>, !.wrote = FALSE,
                            !.fresh = FALSE, !.twice = FALSE, !.firstLoad = NoLoad]
    /\ UNCHANGED << fs, nSessions >>

\* the registry is read when the call starts and right after each selection:
\* a change matters only if it comes before one of these reads
RegistryChange ==
    /\ pc \in {"idle", "inputPrompt", "outputPrompt"}
    /\ \/ \E name \in DOMAIN RegisteredSources :
            /\ sources' = IF name \in DOMAIN sources
                          THEN [n \in DOMAIN sources \ {name} |-> sources[n]]
                          ELSE sources @@ (name :> RegisteredSources[name])
            /\ UNCHANGED destinations
       \/ \E name \in DOMAIN RegisteredDestinations :
            /\ destinations' = IF name \in DOMAIN destinations
                               THEN [n \in DOMAIN destinations \ {name} |-> destinations[n]]
                               ELSE destinations @@ (name :> RegisteredDestinations[name])
            /\ UNCHANGED sources
    /\ UNCHANGED << pc, inputMethods, outputMethods, inputMethod, inputconfig, outputMethod,
                    outputconfig, validations, transformations, fields, i, config, rules,
                    ret, prompts, storeVars, loaded, hist, nSessions >>

-----------------------------------------------------------------------------
(* Spec: one call of SetupConfigInteractively in a fresh process, with the *)
(* registry free to change under it.                                       *)

Next ==
    \/ SetupConfigInteractively({"idle"})
    \/ inputPromptRun
    \/ readIntegrationFieldsPrompt(FieldValues)
    \/ outputPromptRun
    \/ readRulesPrompt(Lines, MaxLinesCall)
    \/ readErrorHandlingConfigPrompt(Strategies)
    \/ RegistryChange

Spec == Init /\ [][Next]_vars

(* SpecStore: sessions, loads and restarts over the life of config.yaml.   *)

NextStore ==
    \/ SetupConfigInteractively({"idle", "done"})
    \/ inputPromptRun
    \/ readIntegrationFieldsPrompt(FieldValuesStore)
    \/ outputPromptRun
    \/ readRulesPrompt(LinesStore, MaxLines)
    \/ readErrorHandlingConfigPrompt(StrategiesStore)
    \/ LoadConfig(ConfigYaml)
    \/ Restart

SpecStore == Init /\ [][NextStore]_vars

-----------------------------------------------------------------------------
(* Properties.                                                             *)

\* the prompts of the given kinds, in the order they were issued
PromptsOf(kinds) == SelectSeq(prompts, LAMBDA p : p.kind \in kinds)

\* whether a prompt of one of the given kinds has been issued
Issued(kinds) == \E n \in DOMAIN prompts : prompts[n].kind \in kinds

\* the fields an integration declares
DeclaredFields(instance) ==
    IF instance.kind = "ptr" THEN instance.elem.fields ELSE instance.fields

\* the lines of a sequence, each followed by one line separator
RECURSIVE JoinLines(_)
JoinLines(ls) == IF ls = << >> THEN << >> ELSE Head(ls) \o << NL >> \o JoinLines(Tail(ls))

\* C1: a prompt that fails is the last prompt of its session, and the session
\* has then returned an error and no document, whatever was entered before.
C1_PromptFailureAborts ==
    \A n \in DOMAIN prompts :
        ~ prompts[n].ok =>
            /\ n = Len(prompts)
            /\ pc = "done"
            /\ ret.set /\ ret.nil /\ ret.doc = << >> /\ ret.err # ""

\* C1 witness: the strategy prompt fails after every other value was entered.
C1_Witness ==
    /\ Len(prompts) > 6
    /\ prompts[Len(prompts)].kind = "strategy"
    /\ ~ prompts[Len(prompts)].ok
    /\ validations # << >>
    /\ ret.nil

\* C2: when a selection is answered with a name the registry does not hold, the
\* same step ends the session with an error and no document: no field prompt of
\* that integration, and no later step, follows.
C2_NotFoundAborts ==
    [][ (/\ pc \in {"inputPrompt", "outputPrompt"}
         /\ Len(prompts') = Len(prompts) + 1
         /\ prompts'[Len(prompts')].ok
         /\ prompts'[Len(prompts')].value \notin
                DOMAIN (IF pc = "inputPrompt" THEN sources ELSE destinations))
        => (/\ pc' = "done"
            /\ ret'.set /\ ret'.nil /\ ret'.err # ""
            /\ ret'.cause = "integration not found in registry"
            /\ ~ \E n \in DOMAIN prompts' :
                   prompts'[n].kind = (IF pc = "inputPrompt" THEN "inputField"
                                                             ELSE "outputField")) ]_vars

\* C2 witness: the output integration, offered when the call started, is gone
\* from the registry when it is looked up, after the input fields were entered.
C2_Witness ==
    /\ pc = "done"
    /\ ret.cause = "integration not found in registry"
    /\ prompts[Len(prompts)].kind = "selectOutput"
    /\ inputconfig # EmptyMap

\* the field prompts of one integration are one per declared field, in
\* declaration order, and the mapping holds each answer under its field's name
Collected(kind, declared, mapping) ==
    LET asked == PromptsOf({kind})
    IN  /\ Len(asked) = Len(declared)
        /\ \A n \in DOMAIN asked : asked[n].ok /\ asked[n].name = declared[n].name
        /\ DOMAIN mapping = {declared[n].name : n \in DOMAIN declared}
        /\ \A n \in DOMAIN asked : mapping[asked[n].name] = asked[n].value

\* C3: once the fields of an integration are collected, exactly one prompt per
\* declared field was issued, in declaration order, and the mapping has exactly
\* the declared names, each with the text entered for it, the empty text included.
C3_FieldsCollected ==
    /\ (pc = "outputPrompt" \/ Issued({"selectOutput"}))
          => Collected("inputField", DeclaredFields(RegisteredSources[inputMethod]),
                       inputconfig)
    /\ (pc = "validations" \/ Issued({"validations"}))
          => Collected("outputField", DeclaredFields(RegisteredDestinations[outputMethod]),
                       outputconfig)

\* C3 witness: two fields collected, the first answered with the empty text.
C3_Witness ==
    /\ pc = "validations"
    /\ outputconfig = (DSNField :> << >>) @@ (TableField :> << "V" >>)
    /\ inputconfig = (PathField :> << "V" >>)

\* what one category's collection read and returned
RulesRead(kind, result) ==
    LET read == PromptsOf({kind})
    IN  /\ read # << >>
        /\ read[Len(read)].ok /\ read[Len(read)].value = << >>
        /\ \A n \in 1 .. Len(read) - 1 : read[n].ok /\ read[n].value # << >>
        /\ result = JoinLines([n \in 1 .. Len(read) - 1 |-> read[n].value])

\* C4: once a rule category is collected, its text is the non-empty lines read,
\* in order, each followed by "\n"; the first empty line was the last line read
\* for the category; an empty first line gives the empty text.
C4_RulesConcatenated ==
    /\ (pc = "transformations" \/ Issued({"transformations"}))
          => RulesRead("validations", validations)
    /\ (pc = "strategy" \/ Issued({"strategy"}))
          => RulesRead("transformations", transformations)

\* C4 witness: two different lines, then the empty line; and an empty first line.
C4_Witness ==
    /\ pc = "strategy"
    /\ validations = << "a", NL, "b", NL >>
    /\ transformations = << >>

\* the keys of the data model, in the spelling of the specification
inputConfigKeyOfSpec   == << "i","n","p","u","t","C","o","n","f","i","g" >>
outputConfigKeyOfSpec  == << "o","u","t","p","u","t","C","o","n","f","i","g" >>
errorHandlingKeyOfSpec == << "e","r","r","o","r","H","a","n","d","l","i","n","g" >>

\* what a returned document holds, under the given spelling of three of its keys
DocumentHolds(doc, inCfgKey, outCfgKey, errKey) ==
    /\ DOMAIN doc = {inputMethodKey, outputMethodKey, inCfgKey, outCfgKey,
                     validationsKey, transformationsKey, errKey}
    /\ doc[inputMethodKey] = Str(PromptsOf({"selectInput"})[1].value)
    /\ doc[outputMethodKey] = Str(PromptsOf({"selectOutput"})[1].value)
    /\ doc[inCfgKey] = Map(inputconfig)
    /\ doc[outCfgKey] = Map(outputconfig)
    /\ doc[validationsKey] = Str(validations)
    /\ doc[transformationsKey] = Str(transformations)
    /\ doc[errKey] = Map(strategyKey :> PromptsOf({"strategy"})[1].value)

\* C5 as stated: the returned document has the keys inputMethod, outputMethod,
\* inputConfig, outputConfig, validations, transformations, errorHandling, each
\* with the value collected for it.
C5_AsStated ==
    (ret.set /\ ~ ret.nil) =>
        DocumentHolds(ret.doc, inputConfigKeyOfSpec, outputConfigKeyOfSpec,
                      errorHandlingKeyOfSpec)

\* C5 amended: the returned document has the keys inputMethod, outputMethod,
\* inputconfig, outputconfig, validations, transformations, errorhandling, each
\* with the value collected for it, the strategy being the label entered.
C5_DocumentAssembled ==
    (ret.set /\ ~ ret.nil) =>
        DocumentHolds(ret.doc, inputconfigKey, outputconfigKey, errorhandlingKey)

\* C5 witness: a document whose two rule texts differ and whose strategy is the
\* empty label.
C5_Witness ==
    /\ ret.set /\ ~ ret.nil
    /\ ret.doc[validationsKey] = Str(<< "a", NL >>)
    /\ ret.doc[transformationsKey] = Str(<< "b", NL, "a", NL >>)
    /\ ret.doc[errorhandlingKey] = Map(strategyKey :> << >>)

\* a loaded document reproduces the two names of a saved one, and its two
\* mappings have the saved ones' keys, each with an equal value
Reproduces(got, doc) ==
    /\ got[inputMethodKey] = doc[inputMethodKey]
    /\ got[outputMethodKey] = doc[outputMethodKey]
    /\ \A key \in {inputconfigKey, outputconfigKey} :
          /\ DOMAIN got[key].v = DOMAIN doc[key].v
          /\ \A k \in DOMAIN doc[key].v : got[key].v[k] = doc[key].v[k]

\* C6: LoadConfig of the file that saveConfig(doc) wrote reproduces doc's
\* inputMethod and outputMethod, and gives inputconfig and outputconfig the key
\* sets of doc's, with equal values.
C6_RoundTrip ==
    (/\ hist.fileSet /\ hist.fresh /\ loaded.set /\ ~ loaded.err
     /\ hist.saved => (hist.wrote /\ hist.doc = hist.fileDoc))
        => Reproduces(loaded.doc, hist.fileDoc)

\* the keys of a map, compared as the case-insensitive store compares them
KeysOf(m) == {ToLower(k) : k \in DOMAIN m}

\* C7: the file written by saveConfig(doc) has the top-level fields of doc and
\* no other, and under each field that is a mapping the entries of doc and no
\* other (keys compared without regard to case).
C7_FileIsDocument ==
    hist.fileSet =>
        LET file == fs[ConfigYaml].tree
            doc  == hist.fileDoc
        IN  /\ fs[ConfigYaml].kind = "yaml"
            /\ KeysOf(file) = KeysOf(doc)
            /\ \A k \in DOMAIN file : \A d \in DOMAIN doc :
                  (ToLower(k) = ToLower(d) /\ file[k].t = "map")
                      => KeysOf(file[k].v) = KeysOf(doc[d].v)

\* C8: when saveConfig is called twice in a row with one document, and both
\* writes succeed, LoadConfig returns after the second call what it returned
\* after the first.
C8_PersistIdempotent ==
    (hist.twice /\ hist.firstLoad.set /\ hist.fresh /\ loaded.set)
        => loaded = hist.firstLoad

\* C8 witness: a document loaded after the first call, and again after the second.
C8_Witness ==
    /\ hist.twice /\ hist.firstLoad.set /\ hist.fresh /\ loaded.set
    /\ ~ loaded.err
    /\ loaded.doc[validationsKey] = Str(<< "a", NL >>)

\* C9: when every prompt succeeded and the write of config.yaml failed, the
\* call has returned the whole document, as combined, and no error.
C9_WriteFailureNotPropagated ==
    (/\ pc = "done" /\ Issued({"strategy"}) /\ prompts[Len(prompts)].ok
     /\ hist.saved /\ ~ hist.wrote)
        => /\ ret.set /\ ~ ret.nil /\ ret.err = ""
           /\ ret.doc = hist.doc
           /\ DocumentHolds(ret.doc, inputconfigKey, outputconfigKey, errorhandlingKey)

\* C9 witness: the write failed and a document with entered values was returned.
C9_Witness ==
    /\ pc = "done" /\ hist.saved /\ ~ hist.wrote
    /\ ~ ret.nil
    /\ ret.doc[inputconfigKey] = Map(PathField :> << "V" >>)
    /\ fs[ConfigYaml] = Garbled

\* whether an answered prompt of the kind precedes position n of the log
AnsweredBefore(kind, n) ==
    \E m \in 1 .. n - 1 : prompts[m].kind = kind /\ prompts[m].ok

\* C10 as stated: no field prompt of either integration is issued before both
\* selection prompts have been answered.
C10_AsStated ==
    \A n \in DOMAIN prompts :
        prompts[n].kind \in {"inputField", "outputField"}
            => AnsweredBefore("selectInput", n) /\ AnsweredBefore("selectOutput", n)

\* C10 amended: the selection of an integration is answered before any field
\* prompt of that integration is issued, and the input selection is answered
\* before the output selection prompt is issued (the input integration's field
\* prompts come between the two selections).
C10_SelectionBeforeFields ==
    \A n \in DOMAIN prompts :
        /\ prompts[n].kind = "inputField" => AnsweredBefore("selectInput", n)
        /\ prompts[n].kind = "outputField" => AnsweredBefore("selectOutput", n)
        /\ prompts[n].kind = "selectOutput" => AnsweredBefore("selectInput", n)
        /\ prompts[n].kind = "inputField" => ~ AnsweredBefore("selectOutput", n)

\* C10 witness: field prompts of both integrations were issued.
C10_Witness ==
    /\ Issued({"inputField"}) /\ Issued({"outputField"})
    /\ pc = "validations"

\* C11: every selection after which the call goes on was answered with a name
\* the registry listed when the call started and holds when it is looked up; a
\* returned document carries these two names, a source's and a destination's.
C11_MethodsKnownAtCollection ==
    /\ [][ (/\ pc \in {"inputPrompt", "outputPrompt"}
            /\ pc' \notin {pc, "done"})
           => LET name == prompts'[Len(prompts')].value
              IN  IF pc = "inputPrompt"
                  THEN name \in inputMethods /\ name \in DOMAIN sources
                  ELSE name \in outputMethods /\ name \in DOMAIN destinations ]_vars
    /\ [] ((ret.set /\ ~ ret.nil) =>
              /\ ret.doc[inputMethodKey] = Str(PromptsOf({"selectInput"})[1].value)
              /\ ret.doc[outputMethodKey] = Str(PromptsOf({"selectOutput"})[1].value)
              /\ ret.doc[inputMethodKey].v \in DOMAIN RegisteredSources
              /\ ret.doc[outputMethodKey].v \in DOMAIN RegisteredDestinations
              /\ Issued({"inputField"}) /\ Issued({"outputField"}))

\* C11 witness: a document is returned whose input method has left the registry
\* since its fields were collected.
C11_Witness ==
    /\ ret.set /\ ~ ret.nil
    /\ ret.doc[inputMethodKey] = Str(CSV)
    /\ CSV \notin DOMAIN sources

\* ------------------------------------------------------------------------
\* A registry holding an integration whose struct has a field that is a slice
\* ------------------------------------------------------------------------

Kafka       == << "K", "a", "f", "k", "a" >>
TopicsField == << "T", "o", "p", "i", "c", "s" >>

KafkaSource == [kind |-> "ptr",
                elem |-> [kind |-> "struct", fields |-> << Field(TopicsField, "[]string") >>]]

SchemaSources == RegisteredSources @@ (Kafka :> KafkaSource)

\* reflect's Kind of a field type, from the type's Go spelling
KindOfType(type) ==
    IF type = "string" THEN "string"
    ELSE IF type = "[]string" THEN "slice"
    ELSE IF type = "map[string]string" THEN "map"
    ELSE "struct"

InitSchema ==
    /\ pc = "idle"
    /\ inputMethods = {} /\ outputMethods = {}
    /\ inputMethod = << >> /\ inputconfig = EmptyMap
    /\ outputMethod = << >> /\ outputconfig = EmptyMap
    /\ validations = << >> /\ transformations = << >>
    /\ fields = << >> /\ i = 0 /\ config = EmptyMap
    /\ rules = << >>
    /\ ret = NoReturn
    /\ prompts = << >>
    /\ override = EmptyMap /\ vconfig = EmptyMap /\ configFile = << >>
    /\ \E f \in {NoFile, Yaml(PriorTree)} : fs = (ConfigYaml :> f)
    /\ sources = SchemaSources /\ destinations = RegisteredDestinations
    /\ loaded = NoLoad
    /\ hist = NoHist
    /\ nSessions = 0

\* one call of SetupConfigInteractively against that registry
NextSchema ==
    \/ SetupConfigInteractively({"idle"})
    \/ inputPromptRun
    \/ readIntegrationFieldsPrompt(FieldValues)
    \/ outputPromptRun
    \/ readRulesPrompt(LinesStore, MaxLines)
    \/ readErrorHandlingConfigPrompt(StrategiesStore)

SpecSchema == InitSchema /\ [][NextSchema]_vars

\* an instance is a flat record when it is a struct (or a pointer to one) none
\* of whose fields is a struct, a slice or a map
FlatRecord(instance) ==
    LET val == IF instance.kind = "ptr" THEN instance.elem ELSE instance
    IN  /\ val.kind = "struct"
        /\ \A n \in DOMAIN val.fields :
               KindOfType(val.fields[n].type) \notin {"struct", "slice", "map"}

\* C12: when the integration selected is found in the registry and is not a
\* flat record, the call returns an error at once and no field prompt of that
\* integration is issued.
C12_NonFlatRejected ==
    [][ (/\ pc \in {"inputPrompt", "outputPrompt"}
         /\ Len(prompts') = Len(prompts) + 1
         /\ prompts'[Len(prompts')].ok
         /\ LET reg  == IF pc = "inputPrompt" THEN sources ELSE destinations
                name == prompts'[Len(prompts')].value
            IN  name \in DOMAIN reg /\ ~ FlatRecord(reg[name]))
        => (/\ pc' = "done"
            /\ ret'.set /\ ret'.nil /\ ret'.err # ""
            /\ ~ \E n \in DOMAIN prompts' :
                   prompts'[n].kind = (IF pc = "inputPrompt" THEN "inputField"
                                                             ELSE "outputField")) ]_vars

\* the value the settings store holds under a top-level key: what was set in
\* the process comes before what was read from the file, keys without case
StoreValue(key) ==
    IF ToLower(key) \in DOMAIN override THEN override[ToLower(key)]
    ELSE IF ToLower(key) \in DOMAIN vconfig THEN vconfig[ToLower(key)]
    ELSE Nil

\* a document that has the given text keys and mapping keys and no other, each
\* holding the store's value under the same name (the zero value when the
\* store has none of that type)
Projected(doc, textKeys, mapKeys) ==
    /\ DOMAIN doc = textKeys \cup mapKeys
    /\ \A k \in textKeys :
          doc[k] = Str(IF StoreValue(k).t = "string" THEN StoreValue(k).v ELSE << >>)
    /\ \A k \in mapKeys :
          doc[k] = Map(IF StoreValue(k).t = "map" THEN StoreValue(k).v ELSE EmptyMap)

\* what LoadConfig returned last, while nothing was saved since: an error and
\* no document exactly when the file is not there or does not parse, and else
\* a document projected under the given spelling of three of its keys
LoadProjects(inCfgKey, outCfgKey, errKey) ==
    (loaded.set /\ hist.fresh) =>
        /\ loaded.err <=> fs[ConfigYaml].kind # "yaml"
        /\ loaded.err => (loaded.nil /\ loaded.doc = << >>)
        /\ ~ loaded.err =>
              /\ ~ loaded.nil
              /\ Projected(loaded.doc,
                           {inputMethodKey, outputMethodKey, validationsKey,
                            transformationsKey},
                           {inCfgKey, outCfgKey, errKey})

C14_NoPartialResult ==
    (Len(prompts) > 0 /\ ~ prompts[Len(prompts)].ok) =>
        LET kind == prompts[Len(prompts)].kind
        IN  /\ kind = "inputField" => inputconfig = EmptyMap
            /\ kind = "outputField" => outputconfig = EmptyMap
            /\ kind = "validations" => validations = << >>
            /\ kind = "transformations" => transformations = << >>
            /\ kind \in {"inputField", "outputField", "validations", "transformations"}
                  => (ret.set /\ ret.nil /\ ret.err # "" /\ ret.cause = "prompt")

\* C14 witness: the prompt for the second field fails after the first was entered.
C14_Witness ==
    /\ Len(prompts) > 0 /\ ~ prompts[Len(prompts)].ok
    /\ prompts[Len(prompts)].kind = "outputField"
    /\ i = 1 /\ DOMAIN config = {DSNField}
    /\ pc = "done"

\* C14 witness for readRules: a line read fails after a line was accumulated
C14_RulesFailureAfterLine ==
    /\ Len(prompts) > 0 /\ ~ prompts[Len(prompts)].ok
    /\ prompts[Len(prompts)].kind = "transformations"
    /\ NumLines(rules) = 1
    /\ pc = "done"

\* the place of a prompt in the late phases of a session (0: before them)
LatePhase(kind) ==
    IF kind = "validations" THEN 1
    ELSE IF kind = "transformations" THEN 2
    ELSE IF kind = "strategy" THEN 3
    ELSE 0

\* C15: in a session that returned a document the prompts for validation lines
\* all come before those for transformation lines, which all come before the
\* one strategy prompt, the last prompt of the session; the document saved is
\* the one assembled; and the only step of a session that sets keys in the
\* store or writes the file is the one in which the strategy prompt is answered.
C15_LatePhasesInOrder ==
    /\ [] ((ret.set /\ ~ ret.nil) =>
              /\ \A n, m \in DOMAIN prompts :
                    n < m => LatePhase(prompts[n].kind) <= LatePhase(prompts[m].kind)
              /\ Issued({"validations"}) /\ Issued({"transformations"})
              /\ Len(PromptsOf({"strategy"})) = 1
              /\ prompts[Len(prompts)].kind = "strategy"
              /\ hist.saved /\ hist.doc = ret.doc)
    /\ [][ (override' # override \/ fs' # fs \/ hist' # hist)
           => (/\ pc = "strategy" /\ pc' = "done"
               /\ ~ hist.saved /\ hist'.saved
               /\ ret'.set /\ ~ ret'.nil
               /\ Len(prompts') = Len(prompts) + 1
               /\ prompts'[Len(prompts')].kind = "strategy"
               /\ prompts'[Len(prompts')].ok) ]_vars

\* C15 witness: a session with a validation line and a transformation line has
\* returned its document and written the file.
C15_Witness ==
    /\ ret.set /\ ~ ret.nil
    /\ validations # << >> /\ transformations # << >>
    /\ hist.wrote
    /\ fs[ConfigYaml].kind = "yaml"

\* C16: a step of a session that does not return a document (the start of the
\* call, an answered prompt, a failed prompt) leaves the keys set in the
\* process, the configuration read and the files as they are; and LoadConfig
\* after a session that returned an error returns what LoadConfig returned
\* last, when nothing was saved in between.
C16_AbortLeavesStore ==
    /\ [][ (\/ pc \in {"idle", "done"} /\ pc' = "inputPrompt"
            \/ pc \notin {"idle", "done"} /\ ~ (ret'.set /\ ~ ret'.nil))
           => UNCHANGED << override, vconfig, configFile, fs >> ]_vars
    /\ [][ (/\ pc = "done" /\ pc' = "done"
            /\ ret.set /\ ret.nil
            /\ loaded.set /\ hist.fresh)
           => loaded' = loaded ]_vars

\* C16 witness: a session was aborted at its strategy prompt, every earlier
\* prompt answered, in a process that saved a document earlier and loaded it.
C16_Witness ==
    /\ pc = "done" /\ ret.set /\ ret.nil
    /\ prompts[Len(prompts)].kind = "strategy"
    /\ loaded.set /\ hist.fresh /\ ~ loaded.err
    /\ hist.saved

\* ------------------------------------------------------------------------
\* One call of SetupConfigInteractively with a user who goes on answering
\* ------------------------------------------------------------------------

NextLive ==
    \/ SetupConfigInteractively({"idle"})
    \/ inputPromptRun
    \/ readIntegrationFieldsPrompt(FieldValues)
    \/ outputPromptRun
    \/ readRulesPrompt(LinesStore, MaxLines)
    \/ readErrorHandlingConfigPrompt(StrategiesStore)

\* a rule line read that ends the collection it belongs to: the empty line, or
\* the read fails
RulesEnded ==
    /\ readRulesPrompt(LinesStore, MaxLines)
    /\ \/ ~ prompts'[Len(prompts')].ok
       \/ prompts'[Len(prompts')].value = << >>

\* every prompt issued is answered or aborted after some time (promptui blocks
\* until then), and in each rule collection the empty line comes, or a failure
SpecLive ==
    /\ Init /\ [][NextLive]_vars
    /\ WF_vars(inputPromptRun)
    /\ WF_vars(readIntegrationFieldsPrompt(FieldValues))
    /\ WF_vars(outputPromptRun)
    /\ WF_vars(readRulesPrompt(LinesStore, MaxLines))
    /\ WF_vars(RulesEnded)
    /\ WF_vars(readErrorHandlingConfigPrompt(StrategiesStore))

\* C17: a call of SetupConfigInteractively whose prompts are all answered or
\* aborted, the empty line coming in each rule collection unless a read fails,
\* returns; a rule collection is left when the empty line is entered or a read
\* fails and by no other answer, so that it goes on for as long as non-empty
\* lines are entered.
C17_Terminates ==
    /\ [] (pc \notin {"idle", "done"} => <> (pc = "done" /\ ret.set))
    /\ [][ (pc \in {"validations", "transformations"} /\ prompts' # prompts)
           => LET answer == prompts'[Len(prompts')]
              IN  /\ (~ answer.ok) => (pc' = "done" /\ ret'.set /\ ret'.nil)
                  /\ (answer.ok /\ answer.value = << >>)
                        => (pc' \notin {pc, "done"} /\ ~ ret'.set)
                  /\ (answer.ok /\ answer.value # << >>)
                        => (pc' = pc /\ ~ ret'.set) ]_vars

\* C17 witness: the call has returned its document after a non-empty line and
\* the empty line in each of the two rule collections.
C17_Witness ==
    /\ pc = "done" /\ ret.set /\ ~ ret.nil
    /\ NumLines(validations) = 1 /\ NumLines(transformations) = 1
    /\ Len(PromptsOf({"validations", "transformations"})) = 4

\* C18: LoadConfig of the file that saveConfig(doc) wrote returns doc's
\* validations and transformations, separators and the empty text included,
\* and an errorhandling whose strategy is doc's.
C18_RulesAndStrategyRoundTrip ==
    (/\ hist.fileSet /\ hist.fresh /\ loaded.set /\ ~ loaded.err
     /\ hist.saved => (hist.wrote /\ hist.doc = hist.fileDoc))
        => /\ loaded.doc[validationsKey] = hist.fileDoc[validationsKey]
           /\ loaded.doc[transformationsKey] = hist.fileDoc[transformationsKey]
           /\ strategyKey \in DOMAIN loaded.doc[errorhandlingKey].v
           /\ loaded.doc[errorhandlingKey].v[strategyKey]
                 = hist.fileDoc[errorhandlingKey].v[strategyKey]

\* C18 witness: a new process loaded the file an earlier one wrote, with a
\* validation line and no transformation.
C18_Witness ==
    /\ hist.fileSet /\ hist.fresh /\ loaded.set /\ ~ loaded.err
    /\ ~ hist.saved /\ override = EmptyMap
    /\ hist.fileDoc[validationsKey] = Str(<< "a", NL >>)
    /\ hist.fileDoc[transformationsKey] = Str(<< >>)
    /\ loaded.doc[errorhandlingKey].v[strategyKey] = StopOnError

====
